---- MODULE Spec2Model ----
(***************************************************************************)
(* A model of the DFU protocol engine of usbd-dfu (src/src/class.rs):      *)
(* the DFUStatus record held by DfuClass, the six class requests routed by *)
(* control_in / control_out, the USB reset hook and the deferred executor  *)
(* update_impl that poll() runs.                                           *)
(*                                                                         *)
(* Every handler is written as an operator from the DFUStatus value before *)
(* the call (and the request, and what the back-end answers) to an outcome *)
(* record                                                                  *)
(*     [status |-> DFUStatus after, xfer |-> "accept" | "reject" | "none", *)
(*      data |-> bytes handed to accept_with, calls |-> back-end calls]    *)
(* where a back-end call is the tuple of its name, its arguments and, as   *)
(* its last element, what it answered; an action applies one handler to    *)
(* the variable `status`.                                                  *)
(***************************************************************************)
EXTENDS Integers, Sequences, FiniteSets, TLC

VARIABLES
    status,                  \* DfuClass.status : DFUStatus
    MANIFESTATION_TOLERANT,  \* the back-end's M::MANIFESTATION_TOLERANT
    fresh,                   \* TRUE until the first call after DfuClass::new
    last,                    \* the call that has just returned to the USB driver,
                             \* with what it was given (request, payload) and
                             \* what it answered;
                             \* NoCall once the driver has taken the answer
    prev,                    \* the call before it, when that was a CLRSTATUS: the
                             \* state it was received in and its answer
    phase,                   \* where the command of the last accepted DNLOAD is
                             \* on its way: "staged", "promoted", "executed",
                             \* and "none" once acknowledged or discarded
    cancelled,               \* "abort" / "reset" since an accepted ABORT / a USB
                             \* reset met a command on its way, until the next
                             \* accepted DNLOAD; "none" otherwise
    pointer_set              \* the address of the last SetAddressPointer the
                             \* executor processed; None before the first

vars == <<status, MANIFESTATION_TOLERANT, fresh, last, prev, phase, cancelled,
          pointer_set>>

----------------------------------------------------------------------------
(* Request codes and compile-time switches                                 *)

DFU_DETACH == 0
DFU_DNLOAD == 1
DFU_UPLOAD == 2
DFU_GETSTATUS == 3
DFU_CLRSTATUS == 4
DFU_GETSTATE == 5
DFU_ABORT == 6

HAS_READ_UNPROTECT == FALSE

\* DownloadCommand discriminants
CMD_GetCommands == 0
CMD_SetAddressPointer == 33
CMD_Erase == 65
CMD_ReadUnprotect == 146

----------------------------------------------------------------------------
(* Back-end configuration (associated constants of DfuMemory)              *)

\* A u32 address is the pair <<high 16 bits, low 16 bits>>: TLC's integers
\* stop at 2^31 - 1.
INITIAL_ADDRESS_POINTER == <<0, 0>>
TRANSFER_SIZE == 128
PROGRAM_TIME_MS == 50
ERASE_TIME_MS == 197121
FULL_ERASE_TIME_MS == 16777221
MANIFESTATION_TIME_MS == 1
DETACH_TIMEOUT == 250

\* interface number handed out by alloc.interface()
IF_NUM == 0

U16 == 65536

----------------------------------------------------------------------------
(* Bounds of the model                                                     *)

\* wValue ranges over 0..MaxWValue
MaxWValue == 3
\* DNLOAD command payloads (wValue = 0) have 0..MaxLen bytes
MaxLen == 5
\* DNLOAD blocks (wValue >= 1) have 0..MaxBlockLen bytes
MaxBlockLen == 3

----------------------------------------------------------------------------
(* enum DfuState, enum DfuStatusCode, with their u8 discriminants          *)

DfuState ==
    {"AppIdle", "AppDetach", "DfuIdle", "DfuDnloadSync", "DfuDnBusy",
     "DfuDnloadIdle", "DfuManifestSync", "DfuManifest",
     "DfuManifestWaitReset", "DfuUploadIdle", "DfuError"}

StateByte(s) ==
    CASE s = "AppIdle" -> 0
      [] s = "AppDetach" -> 1
      [] s = "DfuIdle" -> 2
      [] s = "DfuDnloadSync" -> 3
      [] s = "DfuDnBusy" -> 4
      [] s = "DfuDnloadIdle" -> 5
      [] s = "DfuManifestSync" -> 6
      [] s = "DfuManifest" -> 7
      [] s = "DfuManifestWaitReset" -> 8
      [] s = "DfuUploadIdle" -> 9
      [] s = "DfuError" -> 10

DfuStatusCode ==
    {"Ok", "ErrTarget", "ErrFile", "ErrWrite", "ErrErase", "ErrCheckErased",
     "ErrProg", "ErrVerify", "ErrAddress", "ErrNotdone", "ErrFirmware",
     "ErrVendor", "ErrUsbr", "ErrPOR", "ErrUnknown", "ErrStalledPkt"}

StatusByte(c) ==
    CASE c = "Ok" -> 0
      [] c = "ErrTarget" -> 1
      [] c = "ErrFile" -> 2
      [] c = "ErrWrite" -> 3
      [] c = "ErrErase" -> 4
      [] c = "ErrCheckErased" -> 5
      [] c = "ErrProg" -> 6
      [] c = "ErrVerify" -> 7
      [] c = "ErrAddress" -> 8
      [] c = "ErrNotdone" -> 9
      [] c = "ErrFirmware" -> 10
      [] c = "ErrVendor" -> 11
      [] c = "ErrUsbr" -> 12
      [] c = "ErrPOR" -> 13
      [] c = "ErrUnknown" -> 14
      [] c = "ErrStalledPkt" -> 15

\* enum DfuMemoryError, enum DfuManifestationError
DfuMemoryError ==
    {"Target", "File", "Write", "Erase", "CheckErased", "Prog", "Verify",
     "Unknown", "Address", "ErrVendor"}

DfuManifestationError ==
    {"Target", "File", "NotDone", "Firmware", "ErrVendor", "Unknown"}

\* impl From<DfuMemoryError> for DfuStatusCode
FromMemoryError(e) ==
    CASE e = "File" -> "ErrFile"
      [] e = "Target" -> "ErrTarget"
      [] e = "Address" -> "ErrAddress"
      [] e = "CheckErased" -> "ErrCheckErased"
      [] e = "Erase" -> "ErrErase"
      [] e = "Write" -> "ErrWrite"
      [] e = "Prog" -> "ErrProg"
      [] e = "Verify" -> "ErrVerify"
      [] e = "Unknown" -> "ErrUnknown"
      [] e = "ErrVendor" -> "ErrVendor"

\* impl From<DfuManifestationError> for DfuStatusCode
FromManifestationError(e) ==
    CASE e = "NotDone" -> "ErrNotdone"
      [] e = "Firmware" -> "ErrFirmware"
      [] e = "Unknown" -> "ErrUnknown"
      [] e = "ErrVendor" -> "ErrVendor"
      [] e = "File" -> "ErrFile"
      [] e = "Target" -> "ErrTarget"

----------------------------------------------------------------------------
(* enum Command                                                            *)

CmdNone == [kind |-> "None"]
CmdEraseAll == [kind |-> "EraseAll"]
CmdErase(a) == [kind |-> "Erase", addr |-> a]
CmdSetAddressPointer(a) == [kind |-> "SetAddressPointer", addr |-> a]
CmdReadUnprotect == [kind |-> "ReadUnprotect"]
CmdWriteMemory(b, l) == [kind |-> "WriteMemory", block_num |-> b, len |-> l]
CmdLeaveDfu == [kind |-> "LeaveDfu"]

----------------------------------------------------------------------------
(* struct DFUStatus                                                        *)

\* DFUStatus::new
DFUStatusNew(addr) ==
    [status |-> "Ok", poll_timeout |-> 0, state |-> "DfuIdle",
     address_pointer |-> addr, command |-> CmdNone, pending |-> CmdNone]

\* new_state_status forgetting to store the status code
new_state_status_keeps_code(s, state, code) == [s EXCEPT !.state = state]

\* DFUStatus::new_state_status
new_state_status(s, state, code) ==
    [s EXCEPT !.status = code, !.state = state]

\* DFUStatus::new_state_ok
new_state_ok(s, state) == new_state_status(s, state, "Ok")

\* impl From<DFUStatus> for [u8; 6]
StatusBytes(s) ==
    << StatusByte(s.status),
       s.poll_timeout % 256,
       (s.poll_timeout \div 256) % 256,
       (s.poll_timeout \div 65536) % 256,
       StateByte(s.state),
       0 >>

\* Option<u32>::None
None == <<>>

\* the addition wrapping around at 2^32 (u32::wrapping_add)
checked_add_wraps(a, b) ==
    LET lo == a[2] + b[2]
        hi == a[1] + b[1] + (lo \div U16)
    IN  <<hi % U16, lo % U16>>

\* u32::checked_add on <<high, low>> pairs
checked_add(a, b) ==
    LET lo == a[2] + b[2]
        hi == a[1] + b[1] + (lo \div U16)
    IN  IF hi < U16 THEN <<hi, lo % U16>> ELSE None

\* (a as u32) * (b as u32) for u16 a and b: the product always fits 32 bits
mul_u16(a, b) ==
    LET p1 == (a % 256) * b
        p2 == (a \div 256) * b
        lo == (p2 % 256) * 256 + p1
    IN  << (p2 \div 256) + (lo \div U16), lo % U16 >>

----------------------------------------------------------------------------
(* Outcomes of a handler                                                   *)

Accept(s, calls) == [status |-> s, xfer |-> "accept", data |-> <<>>, calls |-> calls]
AcceptWith(s, bytes, calls) == [status |-> s, xfer |-> "accept", data |-> bytes, calls |-> calls]
Reject(s, calls) == [status |-> s, xfer |-> "reject", data |-> <<>>, calls |-> calls]
NoAnswer(s) == [status |-> s, xfer |-> "none", data |-> <<>>, calls |-> <<>>]

\* the error-stall every handler uses: DfuError/ErrStalledPkt and reject
Stall(s, calls) == Reject(new_state_status(s, "DfuError", "ErrStalledPkt"), calls)

----------------------------------------------------------------------------
(* The request handlers of impl DfuClass                                   *)

\* DfuClass::set_unexpected_reset_state
set_unexpected_reset_state(s) == new_state_status(s, "DfuError", "ErrPOR")

\* DfuClass::set_firmware_corrupted_state
set_firmware_corrupted_state(s) == new_state_status(s, "DfuError", "ErrFirmware")

\* DfuClass::get_address_pointer
get_address_pointer(s) == s.address_pointer

\* clear_status refusing without the error-stall
clear_status_quiet(s) ==
    IF s.state = "DfuError"
    THEN Accept(new_state_ok([s EXCEPT !.command = CmdNone, !.pending = CmdNone],
                             "DfuIdle"), <<>>)
    ELSE Reject(s, <<>>)

\* clear_status leaving the pending command in place
clear_status_keeps_pending(s) ==
    IF s.state = "DfuError"
    THEN Accept(new_state_ok([s EXCEPT !.command = CmdNone], "DfuIdle"), <<>>)
    ELSE Stall(s, <<>>)

\* clear_status accepted in every state
clear_status_always(s) ==
    Accept(new_state_ok([s EXCEPT !.command = CmdNone, !.pending = CmdNone],
                        "DfuIdle"), <<>>)

\* DfuClass::clear_status
clear_status(s) ==
    IF s.state = "DfuError"
    THEN Accept(new_state_ok([s EXCEPT !.command = CmdNone, !.pending = CmdNone],
                             "DfuIdle"), <<>>)
    ELSE Stall(s, <<>>)

\* abort refusing with the error-stall the other handlers use
abort_stalls(s) ==
    IF s.state \in {"DfuIdle", "DfuUploadIdle", "DfuDnloadIdle", "DfuDnloadSync",
                    "DfuManifestSync"}
    THEN Accept(new_state_ok([s EXCEPT !.command = CmdNone, !.pending = CmdNone],
                             "DfuIdle"), <<>>)
    ELSE Stall(s, <<>>)

\* abort accepting the transfer and doing nothing else
abort_accepts_only(s) ==
    IF s.state \in {"DfuIdle", "DfuUploadIdle", "DfuDnloadIdle", "DfuDnloadSync",
                    "DfuManifestSync"}
    THEN Accept(s, <<>>)
    ELSE Reject(s, <<>>)

\* abort putting the address pointer back where it started
abort_rewinds_pointer(s) ==
    IF s.state \in {"DfuIdle", "DfuUploadIdle", "DfuDnloadIdle", "DfuDnloadSync",
                    "DfuManifestSync"}
    THEN Accept(new_state_ok([s EXCEPT !.command = CmdNone, !.pending = CmdNone,
                                       !.address_pointer = INITIAL_ADDRESS_POINTER],
                             "DfuIdle"), <<>>)
    ELSE Reject(s, <<>>)

\* abort going back to DfuIdle with the staged command still in place
abort_keeps_staged(s) ==
    IF s.state \in {"DfuIdle", "DfuUploadIdle", "DfuDnloadIdle", "DfuDnloadSync",
                    "DfuManifestSync"}
    THEN Accept(new_state_ok([s EXCEPT !.pending = CmdNone], "DfuIdle"), <<>>)
    ELSE Reject(s, <<>>)

\* DfuClass::abort
abort(s) ==
    IF s.state \in {"DfuIdle", "DfuUploadIdle", "DfuDnloadIdle", "DfuDnloadSync",
                    "DfuManifestSync"}
    THEN Accept(new_state_ok([s EXCEPT !.command = CmdNone, !.pending = CmdNone],
                             "DfuIdle"), <<>>)
    ELSE Reject(s, <<>>)

\* the address bytes read most significant first
PayloadAddr_big_endian(data) ==
    << data[3] + data[2] * 256, data[5] + data[4] * 256 >>

\* the address carried by bytes 1..4 of a payload (data[1] | data[2] << 8 | ...)
PayloadAddr(data) ==
    << data[4] + data[5] * 256, data[2] + data[3] * 256 >>

\* DfuClass::download, the branch req.value == 0 (a command in data[0])
download_command(s, req, data) ==
    IF req.length >= 1
    THEN LET command == data[1] IN
         IF command = CMD_SetAddressPointer
         THEN IF req.length = 5
              THEN Accept(new_state_ok(
                       [s EXCEPT !.command = CmdSetAddressPointer(PayloadAddr(data))],
                       "DfuDnloadSync"), <<>>)
              ELSE Stall(s, <<>>)
         ELSE IF command = CMD_Erase
         THEN IF req.length = 5
              THEN Accept(new_state_ok(
                       [s EXCEPT !.command = CmdErase(PayloadAddr(data))],
                       "DfuDnloadSync"), <<>>)
              ELSE IF req.length = 1
              THEN Accept(new_state_ok([s EXCEPT !.command = CmdEraseAll],
                                       "DfuDnloadSync"), <<>>)
              ELSE Stall(s, <<>>)
         ELSE IF HAS_READ_UNPROTECT /\ command = CMD_ReadUnprotect
         THEN Accept(new_state_ok([s EXCEPT !.command = CmdReadUnprotect],
                                  "DfuDnloadSync"), <<>>)
         ELSE Stall(s, <<>>)
    ELSE Stall(s, <<>>)

\* a zero-length DNLOAD taken for the end of the download
leave_dfu_to_idle(s) ==
    Accept(new_state_ok([s EXCEPT !.command = CmdLeaveDfu], "DfuDnloadIdle"), <<>>)

\* DfuClass::download, the branch req.length == 0
leave_dfu(s) ==
    Accept(new_state_ok([s EXCEPT !.command = CmdLeaveDfu], "DfuManifestSync"), <<>>)

\* a block staged whatever store_write_buffer answered
download_block_ignores_failure(s, req, data, swb) ==
    LET calls == << <<"store_write_buffer", Len(data), swb>> >> IN
    Accept(new_state_ok(
               [s EXCEPT !.command = CmdWriteMemory(req.value - 2, Len(data) % U16)],
               "DfuDnloadSync"), calls)

\* DfuClass::download, the branch req.value > 1 with a payload; swb is what
\* store_write_buffer answers
download_block(s, req, data, swb) ==
    LET calls == << <<"store_write_buffer", Len(data), swb>> >> IN
    IF swb = "Err"
    THEN Stall(s, calls)
    ELSE Accept(new_state_ok(
                    [s EXCEPT !.command =
                         CmdWriteMemory(req.value - 2, Len(data) % U16)],
                    "DfuDnloadSync"), calls)

\* DfuClass::download past its state gate
download_body(s, req, data, swb) ==
    IF req.length = 0
    THEN leave_dfu(s)
    ELSE IF req.value > 1
    THEN IF data # <<>>
         THEN download_block(s, req, data, swb)
         ELSE Stall(s, <<>>)
    ELSE IF req.value = 0
    THEN download_command(s, req, data)
    ELSE Stall(s, <<>>)

\* download without its state gate
download_no_gate(s, req, data, swb) == download_body(s, req, data, swb)

\* download also taken while a command is being executed
download_while_busy(s, req, data, swb) ==
    IF s.state \notin {"DfuIdle", "DfuDnloadIdle", "DfuDnBusy"}
    THEN Stall(s, <<>>)
    ELSE download_body(s, req, data, swb)

\* DfuClass::download
download(s, req, data, swb) ==
    IF s.state # "DfuIdle" /\ s.state # "DfuDnloadIdle"
    THEN Stall(s, <<>>)
    ELSE download_body(s, req, data, swb)

\* min answering its first argument
min_takes_first(a, b) == a

\* core::cmp::min
min(a, b) == IF a <= b THEN a ELSE b

\* the address of an uploaded block, taken from the block number alone
upload_address_ignores_pointer(s, block_num) ==
    mul_u16(block_num, TRANSFER_SIZE)

\* DfuClass::upload: address_pointer.checked_add(block_num * TRANSFER_SIZE)
upload_address(s, block_num) ==
    checked_add(s.address_pointer, mul_u16(block_num, TRANSFER_SIZE))

\* the slice a back-end read hands back, by its length
Slice(n) == [i \in 1..n |-> 0]

\* DfuClass::upload past its state gate; rd is what read answers if it is
\* called: [ok |-> TRUE, len |-> n] or [ok |-> FALSE, err |-> e]
upload_body(s, req, rd) ==
    IF req.value = 0
    THEN LET commands == <<CMD_GetCommands, CMD_SetAddressPointer, CMD_Erase>> IN
         IF req.length >= Len(commands)
         THEN AcceptWith(new_state_ok(s, "DfuIdle"), commands, <<>>)
         ELSE Stall(s, <<>>)
    ELSE IF req.value > 1
    THEN LET block_num == req.value - 2
             transfer_size == min(TRANSFER_SIZE, req.length)
             address == upload_address(s, block_num)
         IN  IF address # None
             THEN LET calls == << <<"read", address, transfer_size, rd>> >> IN
                  IF rd.ok
                  THEN IF rd.len < TRANSFER_SIZE
                       THEN AcceptWith(new_state_ok(s, "DfuIdle"), Slice(rd.len), calls)
                       ELSE AcceptWith(new_state_ok(s, "DfuUploadIdle"), Slice(rd.len),
                                       calls)
                  ELSE Reject(new_state_status(s, "DfuError", FromMemoryError(rd.err)),
                              calls)
             ELSE Reject(new_state_status(s, "DfuError", "ErrAddress"), <<>>)
    ELSE Stall(s, <<>>)

\* upload without its state gate
upload_no_gate(s, req, rd) == upload_body(s, req, rd)

\* DfuClass::upload
upload(s, req, rd) ==
    IF s.state # "DfuIdle" /\ s.state # "DfuUploadIdle"
    THEN Stall(s, <<>>)
    ELSE upload_body(s, req, rd)

\* get_state putting the status code back to Ok as it answers
get_state_settles(s, req) ==
    IF req.length > 0
    THEN AcceptWith(new_state_ok(s, s.state), <<StateByte(s.state)>>, <<>>)
    ELSE Stall(s, <<>>)

\* DfuClass::get_state
get_state(s, req) ==
    IF req.length > 0
    THEN AcceptWith(s, <<StateByte(s.state)>>, <<>>)
    ELSE Stall(s, <<>>)

\* expected_timeout with the two erase times exchanged
expected_timeout_swapped(s) ==
    CASE s.pending.kind = "WriteMemory" -> PROGRAM_TIME_MS
      [] s.pending.kind = "EraseAll" -> ERASE_TIME_MS
      [] s.pending.kind = "Erase" -> FULL_ERASE_TIME_MS
      [] s.pending.kind = "LeaveDfu" -> MANIFESTATION_TIME_MS
      [] OTHER -> 0

\* DfuClass::expected_timeout
expected_timeout(s) ==
    CASE s.pending.kind = "WriteMemory" -> PROGRAM_TIME_MS
      [] s.pending.kind = "EraseAll" -> FULL_ERASE_TIME_MS
      [] s.pending.kind = "Erase" -> ERASE_TIME_MS
      [] s.pending.kind = "LeaveDfu" -> MANIFESTATION_TIME_MS
      [] OTHER -> 0

\* promotion that leaves the staged command staged
promote_keeps_staged(s, state) ==
    new_state_ok([s EXCEPT !.pending = s.command], state)

\* DfuClass::process: the staged command becomes the pending one
promote(s, state) ==
    new_state_ok([s EXCEPT !.pending = s.command, !.command = CmdNone], state)

\* process in DfuDnloadSync waiting there when nothing is staged
process_dnload_sync_stays(s) ==
    IF s.command.kind \in {"WriteMemory", "SetAddressPointer", "ReadUnprotect",
                           "EraseAll", "Erase"}
    THEN promote(s, "DfuDnBusy")
    ELSE s

\* DfuClass::process in DfuDnloadSync
process_dnload_sync(s) ==
    IF s.command.kind \in {"WriteMemory", "SetAddressPointer", "ReadUnprotect",
                           "EraseAll", "Erase"}
    THEN promote(s, "DfuDnBusy")
    ELSE new_state_ok(s, "DfuDnloadIdle")

\* process in DfuManifestSync never leaving manifestation, whatever the
\* back-end says of its tolerance
process_manifest_sync_stays(s, tolerant) ==
    IF s.command = CmdNone
    THEN s
    ELSE new_state_ok([s EXCEPT !.pending = s.command, !.command = CmdNone],
                      "DfuManifest")

\* DfuClass::process in DfuManifestSync
process_manifest_sync(s, tolerant) ==
    IF s.command = CmdNone
    THEN IF tolerant
         THEN new_state_ok([s EXCEPT !.command = CmdNone], "DfuIdle")
         ELSE s
    ELSE promote(s, "DfuManifest")

\* process answering without promoting anything
process_skips_promotion(s, tolerant) ==
    [status |-> s, ok |-> s.state # "DfuDnBusy"]

\* DfuClass::process: the promotion step; ok is the returned bool
process(s, tolerant) ==
    IF s.state = "DfuDnloadSync"
    THEN [status |-> process_dnload_sync(s), ok |-> TRUE]
    ELSE IF s.state = "DfuManifestSync"
    THEN [status |-> process_manifest_sync(s, tolerant), ok |-> TRUE]
    ELSE IF s.state = "DfuDnBusy"
    THEN [status |-> s, ok |-> FALSE]
    ELSE [status |-> s, ok |-> TRUE]

\* get_status refusing a poll in DfuDnBusy without the error-stall
get_status_busy_quiet(s, req, tolerant) ==
    IF req.length >= 6
    THEN LET p == process(s, tolerant) IN
         IF p.ok
         THEN LET t == [p.status EXCEPT !.poll_timeout = expected_timeout(p.status)]
              IN  AcceptWith(t, StatusBytes(t), <<>>)
         ELSE Reject(p.status, <<>>)
    ELSE Stall(s, <<>>)

\* get_status building its reply before the promotion step
get_status_replies_first(s, req, tolerant) ==
    IF req.length >= 6
    THEN LET p == process(s, tolerant) IN
         IF p.ok
         THEN LET t == [p.status EXCEPT !.poll_timeout = expected_timeout(p.status)]
              IN  AcceptWith(t, StatusBytes([s EXCEPT !.poll_timeout = t.poll_timeout]),
                             <<>>)
         ELSE Stall(p.status, <<>>)
    ELSE Stall(s, <<>>)

\* get_status running the promotion step before it looks at wLength
get_status_processes_first(s, req, tolerant) ==
    LET p == process(s, tolerant) IN
    IF req.length >= 6
    THEN IF p.ok
         THEN LET t == [p.status EXCEPT !.poll_timeout = expected_timeout(p.status)]
              IN  AcceptWith(t, StatusBytes(t), <<>>)
         ELSE Stall(p.status, <<>>)
    ELSE Stall(p.status, <<>>)

\* DfuClass::get_status
\* (process runs only when req.length >= 6)
get_status(s, req, tolerant) ==
    IF req.length >= 6
    THEN LET p == process(s, tolerant) IN
         IF p.ok
         THEN LET t == [p.status EXCEPT !.poll_timeout = expected_timeout(p.status)]
              IN  AcceptWith(t, StatusBytes(t), <<>>)
         ELSE Stall(p.status, <<>>)
    ELSE Stall(s, <<>>)

\* the executor leaving the pending command in place
clear_pending_never(s) == s

\* DfuClass::update_impl, its last statement: self.status.pending = Command::None
clear_pending(s) == [s EXCEPT !.pending = CmdNone]

\* a manifestation that always comes back to DfuManifestSync
manifested_always_sync(s, tolerant) == new_state_ok(s, "DfuManifestSync")

\* DfuClass::update_impl, after manifestation() answered Ok
manifested(s, tolerant) ==
    IF tolerant
    THEN new_state_ok(s, "DfuManifestSync")
    ELSE new_state_ok(s, "DfuManifestWaitReset")

\* DfuClass::update_impl: address_pointer.checked_add(block_num * TRANSFER_SIZE)
program_address(s, block_num) ==
    checked_add(s.address_pointer, mul_u16(block_num, TRANSFER_SIZE))

\* DfuClass::update_impl; r is what the back-end operation answers if one is
\* called: "Ok" or the error
update_impl(s, tolerant, r) ==
    LET p == s.pending
        memory(t) == IF r = "Ok"
                     THEN new_state_ok(t, "DfuDnloadSync")
                     ELSE new_state_status(t, "DfuError", FromMemoryError(r))
    IN
    CASE p.kind = "EraseAll" ->
           [status |-> clear_pending(memory(s)),
            calls |-> << <<"erase_all", r>> >>]
      [] p.kind = "Erase" ->
           [status |-> clear_pending(memory(s)),
            calls |-> << <<"erase", p.addr, r>> >>]
      [] p.kind = "LeaveDfu" ->
           [status |-> clear_pending(
                           IF r = "Ok"
                           THEN manifested(s, tolerant)
                           ELSE new_state_status(s, "DfuError",
                                                 FromManifestationError(r))),
            calls |-> << <<"manifestation", r>> >>]
      [] p.kind = "ReadUnprotect" ->
           [status |-> clear_pending(new_state_status(s, "DfuError", "ErrStalledPkt")),
            calls |-> <<>>]
      [] p.kind = "WriteMemory" ->
           LET pointer == program_address(s, p.block_num)
           IN  IF pointer # None
               THEN [status |-> clear_pending(memory(s)),
                     calls |-> << <<"program", pointer, p.len, r>> >>]
               ELSE [status |-> clear_pending(
                                    new_state_status(s, "DfuError", "ErrAddress")),
                     calls |-> <<>>]
      [] p.kind = "SetAddressPointer" ->
           [status |-> clear_pending(new_state_ok([s EXCEPT !.address_pointer = p.addr],
                                                  "DfuDnloadSync")),
            calls |-> <<>>]
      [] p.kind = "None" ->
           [status |-> clear_pending(s), calls |-> <<>>]

\* a reset that lets a busy engine carry on
reset_spares_busy(s) ==
    IF s.state \in {"DfuUploadIdle", "DfuDnloadIdle", "DfuDnloadSync",
                    "DfuError", "DfuManifest", "DfuManifestSync"}
    THEN new_state_status(s, "DfuError", "ErrUsbr")
    ELSE s

\* a reset that leaves an error already recorded as it is
reset_keeps_code(s) ==
    IF s.state \in {"DfuUploadIdle", "DfuDnloadIdle", "DfuDnloadSync", "DfuDnBusy",
                    "DfuManifest", "DfuManifestSync"}
    THEN new_state_status(s, "DfuError", "ErrUsbr")
    ELSE s

\* UsbClass::reset, when the back-end's usb_reset hook returns
reset(s) ==
    IF s.state \in {"DfuUploadIdle", "DfuDnloadIdle", "DfuDnloadSync", "DfuDnBusy",
                    "DfuError", "DfuManifest", "DfuManifestSync"}
    THEN new_state_status(s, "DfuError", "ErrUsbr")
    ELSE s

----------------------------------------------------------------------------
(* The dispatcher: UsbClass::control_out, UsbClass::control_in             *)

\* control_out taking a class request for any interface
control_out_any_interface(s, req, data, swb) ==
    IF req.request_type # "Class" THEN NoAnswer(s)
    ELSE IF req.recipient # "Interface" THEN NoAnswer(s)
    ELSE CASE req.request = DFU_DNLOAD -> download(s, req, data, swb)
           [] req.request = DFU_CLRSTATUS -> clear_status(s)
           [] req.request = DFU_ABORT -> abort(s)
           [] OTHER -> Reject(s, <<>>)

control_out(s, req, data, swb) ==
    IF req.request_type # "Class" THEN NoAnswer(s)
    ELSE IF req.recipient # "Interface" THEN NoAnswer(s)
    ELSE IF req.index # IF_NUM THEN NoAnswer(s)
    ELSE CASE req.request = DFU_DNLOAD -> download(s, req, data, swb)
           [] req.request = DFU_CLRSTATUS -> clear_status(s)
           [] req.request = DFU_ABORT -> abort(s)
           [] OTHER -> Reject(s, <<>>)

control_in(s, req, rd, tolerant) ==
    IF req.request_type # "Class" THEN NoAnswer(s)
    ELSE IF req.recipient # "Interface" THEN NoAnswer(s)
    ELSE IF req.index # IF_NUM THEN NoAnswer(s)
    ELSE CASE req.request = DFU_UPLOAD -> upload(s, req, rd)
           [] req.request = DFU_GETSTATUS -> get_status(s, req, tolerant)
           [] req.request = DFU_GETSTATE -> get_state(s, req)
           [] OTHER -> Reject(s, <<>>)

\* if cond { bit } else { 0 }
bit(cond, value) == IF cond THEN value ELSE 0

\* the functional descriptor with the upload and download bits exchanged
functional_descriptor_swapped(tolerant, has_upload, has_download) ==
    << bit(FALSE, 128) + bit(TRUE, 8) + bit(tolerant, 4) + bit(has_upload, 1)
           + bit(has_download, 2),
       DETACH_TIMEOUT % 256,
       (DETACH_TIMEOUT \div 256) % 256,
       TRANSFER_SIZE % 256,
       (TRANSFER_SIZE \div 256) % 256,
       26,
       1 >>

\* UsbClass::get_configuration_descriptors: the bytes of the DFU functional
\* descriptor (the flags are distinct bits, so | adds them up)
functional_descriptor(tolerant, has_upload, has_download) ==
    << bit(FALSE, 128) + bit(TRUE, 8) + bit(tolerant, 4) + bit(has_upload, 2)
           + bit(has_download, 1),
       DETACH_TIMEOUT % 256,
       (DETACH_TIMEOUT \div 256) % 256,
       TRANSFER_SIZE % 256,
       (TRANSFER_SIZE \div 256) % 256,
       26,
       1 >>

\* UsbClass::poll: the deferred executor
poll(s, tolerant, r) == update_impl(s, tolerant, r)

----------------------------------------------------------------------------
(* The requests a host sends and the answers a back-end gives              *)

Request(type, recipient, index, code, value, length) ==
    [request_type |-> type, recipient |-> recipient, index |-> index,
     request |-> code, value |-> value, length |-> length]

\* a class request addressed to the DFU interface
ClassRequest(code, value, length) ==
    Request("Class", "Interface", IF_NUM, code, value, length)

NoRequest == Request("none", "none", 0, 0, 0, 0)

\* the same request, sent with another type, to another recipient or to
\* another interface
Misrouted(req) ==
    { [req EXCEPT !.request_type = "Standard"],
      [req EXCEPT !.recipient = "Device"],
      [req EXCEPT !.index = IF_NUM + 1] }

Opcodes == {CMD_GetCommands, CMD_SetAddressPointer, CMD_Erase, CMD_ReadUnprotect}

\* little-endian address bytes: 0xFFFFFFFF, from which a second block
\* overflows, and 0x1234FFC0, from which it carries into the high half
AddrBytes == { <<255, 255, 255, 255>>, <<192, 255, 52, 18>> }

Zeros(n) == [i \in 1..n |-> 0]

\* the command payloads of n bytes: an opcode, address bytes, zero padding;
\* a payload too short for an address carries the start of one of them
Payloads(n) ==
    { SubSeq(<<op>> \o a \o Zeros(MaxLen), 1, n) :
          op \in Opcodes,
          a \in IF n >= 5 THEN AddrBytes ELSE {<<255, 255, 255, 255>>} }

\* a firmware block of n bytes (its bytes happen to read as an erase command)
BlockData(n) == SubSeq(<<CMD_Erase, 120, 86, 52, 18>> \o Zeros(MaxBlockLen), 1, n)

\* DNLOAD transfers <<request, payload, answer of store_write_buffer>>: the
\* payload has wLength bytes; store_write_buffer is reached only with
\* wValue > 1, so only there its two answers are told apart
DnloadInputs ==
    UNION { { <<ClassRequest(DFU_DNLOAD, 0, l), d, "Ok">> : d \in Payloads(l) } :
                l \in 0..MaxLen }
    \cup { in \in { <<ClassRequest(DFU_DNLOAD, v, l), BlockData(l), swb>> :
                         v \in 1..MaxWValue, l \in 0..MaxBlockLen,
                         swb \in {"Ok", "Err"} } :
                in[3] = "Ok" \/ (in[1].value > 1 /\ in[1].length > 0) }

UploadLengths == {0, 3, TRANSFER_SIZE - 1, TRANSFER_SIZE, TRANSFER_SIZE + 1}

\* what read may answer: a slice (by its length) or an error
ReadAnswers ==
    { [ok |-> TRUE, len |-> n] :
          n \in {0, TRANSFER_SIZE - 1, TRANSFER_SIZE, TRANSFER_SIZE + 1} }
    \cup { [ok |-> FALSE, err |-> e] : e \in DfuMemoryError }

NoRead == [ok |-> FALSE, err |-> "Unknown"]

\* UPLOAD transfers <<request, answer of read>>: read is reached only with
\* wValue > 1; an error of read is told apart for one wLength, the error
\* path not reading the length
UploadInputs ==
    { <<ClassRequest(DFU_UPLOAD, v, l), NoRead>> : v \in {0, 1}, l \in UploadLengths }
    \cup { in \in { <<ClassRequest(DFU_UPLOAD, v, l), rd>> :
                         v \in 2..MaxWValue, l \in UploadLengths,
                         rd \in ReadAnswers } :
                in[2].ok \/ in[1].length = TRANSFER_SIZE }

GetStatusRequests == { ClassRequest(DFU_GETSTATUS, 0, l) : l \in {5, 6, 7} }

GetStateRequests == { ClassRequest(DFU_GETSTATE, 0, l) : l \in {0, 1, 2} }

\* what the back-end operation of a pending command may answer
BackendAnswers(p) ==
    CASE p.kind \in {"EraseAll", "Erase", "WriteMemory"} -> {"Ok"} \cup DfuMemoryError
      [] p.kind = "LeaveDfu" -> {"Ok"} \cup DfuManifestationError
      [] OTHER -> {"Ok"}

\* class requests no handler takes: DETACH, and a handled code sent in the
\* other direction
UnhandledOut == { ClassRequest(c, 0, 0) : c \in {DFU_DETACH, DFU_GETSTATUS} }
UnhandledIn == { ClassRequest(c, 0, 6) : c \in {DFU_DETACH, DFU_DNLOAD} }

MisroutedOut == Misrouted(ClassRequest(DFU_DNLOAD, 0, 0))
MisroutedIn == Misrouted(ClassRequest(DFU_GETSTATUS, 0, 6))

----------------------------------------------------------------------------
(* The state machine                                                       *)
(*                                                                         *)
(* The USB driver (usb-device) owns the class and calls it: control_out,   *)
(* control_in, reset and poll, one call at a time, each running to its     *)
(* end. A call leaves in `last` what it was given and what it answered;    *)
(* Return is the driver taking the answer before its next call.            *)

NoCall == [op |-> "none"]

Init ==
    /\ status = DFUStatusNew(INITIAL_ADDRESS_POINTER)
    /\ MANIFESTATION_TOLERANT \in BOOLEAN
    /\ fresh = TRUE
    /\ last = NoCall
    /\ prev = NoCall
    /\ phase = "none"
    /\ cancelled = "none"
    /\ pointer_set = None

\* the way of a downloaded command, followed from outside the class: staged
\* by an accepted DNLOAD, promoted by an accepted GETSTATUS that leaves it
\* pending, executed by the next poll, acknowledged by an accepted GETSTATUS
\* after that; discarded by an accepted ABORT or CLRSTATUS
NextPhase(op, o) ==
    IF o.xfer = "accept" /\ op = "download" THEN "staged"
    ELSE IF o.xfer = "accept" /\ op \in {"abort", "clear_status"} THEN "none"
    ELSE IF o.xfer = "accept" /\ op = "get_status"
    THEN IF phase = "staged" /\ o.status.pending # CmdNone THEN "promoted"
         ELSE IF phase = "executed" THEN "none"
         ELSE phase
    ELSE IF op = "poll" /\ phase = "promoted" THEN "executed"
    ELSE phase

\* an accepted ABORT that met a staged command, a USB reset that met a staged
\* or pending one; forgotten when the next DNLOAD is accepted
NextCancelled(op, o) ==
    IF o.xfer = "accept" /\ op = "download" THEN "none"
    ELSE IF o.xfer = "accept" /\ op = "abort" /\ status.command # CmdNone
    THEN "abort"
    ELSE IF op = "reset" /\ (status.command # CmdNone \/ status.pending # CmdNone)
    THEN "reset"
    ELSE cancelled

NextPointerSet(op) ==
    IF op = "poll" /\ status.pending.kind = "SetAddressPointer"
    THEN status.pending.addr
    ELSE pointer_set

\* one call on the class: op names the method that ran, payload is what the
\* host sent with the request, o is the outcome
CallData(op, req, payload, o) ==
    /\ last = NoCall
    /\ status' = o.status
    /\ fresh' = FALSE
    /\ last' = [op |-> op, req |-> req, payload |-> payload, pre |-> status,
                xfer |-> o.xfer, data |-> o.data, calls |-> o.calls]
    /\ phase' = NextPhase(op, o)
    /\ cancelled' = NextCancelled(op, o)
    /\ pointer_set' = NextPointerSet(op)
    /\ UNCHANGED <<MANIFESTATION_TOLERANT, prev>>

\* a call that comes with no payload
Call(op, req, o) == CallData(op, req, <<>>, o)

Return ==
    /\ last # NoCall
    /\ last' = NoCall
    /\ prev' = IF last.op = "clear_status"
               THEN [op |-> last.op, state |-> last.pre.state, xfer |-> last.xfer]
               ELSE NoCall
    /\ UNCHANGED <<status, MANIFESTATION_TOLERANT, fresh, phase, cancelled,
                   pointer_set>>

SetUnexpectedResetState ==
    /\ fresh
    /\ Call("set_unexpected_reset_state", NoRequest,
            NoAnswer(set_unexpected_reset_state(status)))

SetFirmwareCorruptedState ==
    /\ fresh
    /\ Call("set_firmware_corrupted_state", NoRequest,
            NoAnswer(set_firmware_corrupted_state(status)))

Dnload ==
    \E in \in DnloadInputs :
        CallData("download", in[1], in[2], control_out(status, in[1], in[2], in[3]))

ClrStatus ==
    Call("clear_status", ClassRequest(DFU_CLRSTATUS, 0, 0),
         control_out(status, ClassRequest(DFU_CLRSTATUS, 0, 0), <<>>, "Ok"))

Abort ==
    Call("abort", ClassRequest(DFU_ABORT, 0, 0),
         control_out(status, ClassRequest(DFU_ABORT, 0, 0), <<>>, "Ok"))

Upload ==
    \E in \in UploadInputs :
        Call("upload", in[1], control_in(status, in[1], in[2], MANIFESTATION_TOLERANT))

GetStatus ==
    \E req \in GetStatusRequests :
        Call("get_status", req, control_in(status, req, NoRead, MANIFESTATION_TOLERANT))

GetState ==
    \E req \in GetStateRequests :
        Call("get_state", req, control_in(status, req, NoRead, MANIFESTATION_TOLERANT))

\* a control transfer the dispatcher routes to no handler
OtherOut ==
    \E req \in UnhandledOut \cup MisroutedOut :
        Call("control_out", req, control_out(status, req, <<>>, "Ok"))

OtherIn ==
    \E req \in UnhandledIn \cup MisroutedIn :
        Call("control_in", req, control_in(status, req, NoRead, MANIFESTATION_TOLERANT))

Reset ==
    Call("reset", NoRequest, NoAnswer(reset(status)))

\* the driver asks for the descriptors; HAS_UPLOAD and HAS_DOWNLOAD are
\* constants of the back-end that nothing else reads, so each call may meet
\* any of their values
GetConfigurationDescriptors ==
    \E HAS_UPLOAD \in BOOLEAN, HAS_DOWNLOAD \in BOOLEAN :
        Call("get_configuration_descriptors",
             [NoRequest EXCEPT !.value = bit(HAS_UPLOAD, 2) + bit(HAS_DOWNLOAD, 1)],
             [status |-> status, xfer |-> "none",
              data |-> functional_descriptor(MANIFESTATION_TOLERANT, HAS_UPLOAD,
                                             HAS_DOWNLOAD),
              calls |-> <<>>])

Poll ==
    \E r \in BackendAnswers(status.pending) :
        LET o == poll(status, MANIFESTATION_TOLERANT, r) IN
        Call("poll", NoRequest,
             [status |-> o.status, xfer |-> "none", data |-> <<>>, calls |-> o.calls])

Next ==
    \/ SetUnexpectedResetState
    \/ SetFirmwareCorruptedState
    \/ Dnload
    \/ ClrStatus
    \/ Abort
    \/ Upload
    \/ GetStatus
    \/ GetState
    \/ OtherOut
    \/ OtherIn
    \/ Reset
    \/ GetConfigurationDescriptors
    \/ Poll
    \/ Return

Spec == Init /\ [][Next]_vars

\* the driver keeps polling: every call returns, and the deferred executor
\* is run again and again, whatever requests and resets come in between
FairSpec == Spec /\ WF_vars(Return) /\ SF_vars(Poll)

----------------------------------------------------------------------------
(* Properties                                                              *)

\* the call that has just returned ran handler op
Ran(op) == last.op = op

Stalled == status.state = "DfuError" /\ status.status = "ErrStalledPkt"

Rejected == last.xfer = "reject"
Accepted == last.xfer = "accept"

\* C1: in every reachable state, state == DfuError if and only if
\* status_code != Ok.
C1_ErrorIffNotOk ==
    (status.state = "DfuError") <=> (status.status # "Ok")

C1_Witness ==
    /\ Ran("poll")
    /\ last.pre.state = "DfuDnBusy"
    /\ status.state = "DfuError"
    /\ status.status = "ErrErase"

\* the states in which a request is legal (section 4.3 of the specification)
LegalStates(op) ==
    CASE op = "download" -> {"DfuIdle", "DfuDnloadIdle"}
      [] op = "upload" -> {"DfuIdle", "DfuUploadIdle"}
      [] op = "get_status" -> DfuState \ {"DfuDnBusy"}
      [] op = "clear_status" -> {"DfuError"}
      [] op = "abort" -> {"DfuIdle", "DfuUploadIdle", "DfuDnloadIdle",
                          "DfuDnloadSync", "DfuManifestSync"}
      [] op = "get_state" -> DfuState

RequestOps ==
    {"download", "upload", "get_status", "clear_status", "abort", "get_state"}

IllegalRequest ==
    /\ last.op \in RequestOps
    /\ last.pre.state \notin LegalStates(last.op)

\* C2 as stated: every request that is not legal in the current state is
\* rejected and leaves the engine in DfuError with status ErrStalledPkt.
C2_Original ==
    IllegalRequest => Rejected /\ Stalled

\* C2 as amended: a DNLOAD, UPLOAD, GETSTATUS or CLRSTATUS that is not legal
\* in the current state is rejected and leaves the engine in DfuError with
\* status ErrStalledPkt; an ABORT that is not legal is rejected and leaves
\* state and status code as they were.
C2_IllegalRequestRejected ==
    IllegalRequest =>
        /\ Rejected
        /\ IF Ran("abort")
           THEN status.state = last.pre.state /\ status.status = last.pre.status
           ELSE Stalled

C2_Witness ==
    /\ Ran("upload")
    /\ last.pre.state = "DfuDnloadIdle"
    /\ last.req.value = 2
    /\ last.req.length = TRANSFER_SIZE
    /\ Rejected
    /\ Stalled

\* C3: a DNLOAD received in any state other than DfuIdle or DfuDnloadIdle, and
\* an UPLOAD received in any state other than DfuIdle or DfuUploadIdle, is
\* rejected, moves the engine to DfuError/ErrStalledPkt, stages nothing and
\* invokes no back-end operation.
C3_StateGate ==
    (\/ Ran("download") /\ last.pre.state \notin {"DfuIdle", "DfuDnloadIdle"}
     \/ Ran("upload") /\ last.pre.state \notin {"DfuIdle", "DfuUploadIdle"})
    =>  /\ Rejected
        /\ Stalled
        /\ status.command = last.pre.command
        /\ status.pending = last.pre.pending
        /\ last.calls = <<>>

C3_Witness ==
    /\ Ran("download")
    /\ last.pre.state = "DfuDnloadSync"
    /\ last.pre.command = CmdEraseAll
    /\ last.req.value = 2
    /\ last.req.length = 3
    /\ Rejected
    /\ status.command = CmdEraseAll

\* C4: GETSTATUS (wLength >= 6) received in DfuDnloadSync: if staged is
\* WriteMemory, SetAddressPointer, ReadUnprotect, EraseAll or Erase, pending
\* becomes that command, staged becomes None, state becomes DfuDnBusy and the
\* reply reports DfuDnBusy; otherwise state becomes DfuDnloadIdle and the
\* reply reports DfuDnloadIdle.
C4_GetStatusInDnloadSync ==
    (Ran("get_status") /\ last.req.length >= 6 /\ last.pre.state = "DfuDnloadSync")
    =>  IF last.pre.command.kind \in {"WriteMemory", "SetAddressPointer",
                                      "ReadUnprotect", "EraseAll", "Erase"}
        THEN /\ status.pending = last.pre.command
             /\ status.command = CmdNone
             /\ status.state = "DfuDnBusy"
             /\ Accepted
             /\ last.data[5] = 4
        ELSE /\ status.state = "DfuDnloadIdle"
             /\ Accepted
             /\ last.data[5] = 5

C4_Witness ==
    /\ Ran("get_status")
    /\ last.req.length = 6
    /\ last.pre.state = "DfuDnloadSync"
    /\ last.pre.command = CmdWriteMemory(1, 3)
    /\ status.pending = CmdWriteMemory(1, 3)
    /\ status.state = "DfuDnBusy"

\* C5: GETSTATUS (wLength >= 6) received in DfuManifestSync: if staged is not
\* None it is moved to pending, staged is cleared and state becomes
\* DfuManifest; if staged is None and MANIFESTATION_TOLERANT is true state
\* becomes DfuIdle; if staged is None and MANIFESTATION_TOLERANT is false
\* state stays DfuManifestSync. In all three cases the request is accepted.
\* (No call sequence brings an intolerant back-end to DfuManifestSync with
\* nothing staged: its manifestation ends in DfuManifestWaitReset. The second
\* conjunct puts the handler in that state, from every reachable one.)
C5_GetStatusInManifestSync ==
    /\ (Ran("get_status") /\ last.req.length >= 6
            /\ last.pre.state = "DfuManifestSync")
       =>  /\ Accepted
           /\ IF last.pre.command # CmdNone
              THEN /\ status.pending = last.pre.command
                   /\ status.command = CmdNone
                   /\ status.state = "DfuManifest"
              ELSE IF MANIFESTATION_TOLERANT
              THEN status.state = "DfuIdle"
              ELSE status.state = "DfuManifestSync"
    /\ \A req \in GetStatusRequests, tolerant \in BOOLEAN :
           LET s == [status EXCEPT !.state = "DfuManifestSync", !.status = "Ok",
                                   !.command = CmdNone]
               o == control_in(s, req, NoRead, tolerant)
           IN  req.length >= 6
               =>  /\ o.xfer = "accept"
                   /\ o.status.state = IF tolerant THEN "DfuIdle"
                                       ELSE "DfuManifestSync"

\* after a manifestation that returned Ok on a tolerant back-end
C5_Witness ==
    /\ Ran("get_status")
    /\ last.req.length = 6
    /\ last.pre.state = "DfuManifestSync"
    /\ last.pre.command = CmdNone
    /\ MANIFESTATION_TOLERANT
    /\ Accepted
    /\ status.state = "DfuIdle"

\* C6 as stated: a GETSTATUS received while state is DfuDnBusy is rejected
\* and does not change the state (state, status code, staged and pending are
\* the same after the request as before it).
C6_Original ==
    (Ran("get_status") /\ last.pre.state = "DfuDnBusy")
    =>  /\ Rejected
        /\ status.state = last.pre.state
        /\ status.status = last.pre.status
        /\ status.command = last.pre.command
        /\ status.pending = last.pre.pending

\* C6 as amended: a GETSTATUS received while state is DfuDnBusy is rejected
\* and moves the engine to DfuError with status ErrStalledPkt; staged and
\* pending are the same after the request as before it.
C6_GetStatusInDnBusy ==
    (Ran("get_status") /\ last.pre.state = "DfuDnBusy")
    =>  /\ Rejected
        /\ Stalled
        /\ status.command = last.pre.command
        /\ status.pending = last.pre.pending

C6_Witness ==
    /\ Ran("get_status")
    /\ last.req.length = 6
    /\ last.pre.state = "DfuDnBusy"
    /\ last.pre.pending.kind = "WriteMemory"
    /\ Rejected
    /\ status.pending = last.pre.pending

\* the poll timeout the reply carries for a pending command
ReplyTimeout(p) ==
    CASE p.kind = "WriteMemory" -> PROGRAM_TIME_MS
      [] p.kind = "EraseAll" -> FULL_ERASE_TIME_MS
      [] p.kind = "Erase" -> ERASE_TIME_MS
      [] p.kind = "LeaveDfu" -> MANIFESTATION_TIME_MS
      [] p.kind \in {"None", "SetAddressPointer", "ReadUnprotect"} -> 0

\* C7: every accepted GETSTATUS reply is the 6-byte record [status code,
\* poll_timeout bits 0..7, bits 8..15, bits 16..23, state, 0], with state and
\* status as they are after the promotion step and poll_timeout chosen from
\* the pending command after promotion; bits above bit 23 are dropped.
C7_GetStatusReply ==
    (Ran("get_status") /\ Accepted)
    =>  LET T == ReplyTimeout(status.pending) IN
        last.data = << StatusByte(status.status),
                       T % 256,
                       (T \div 256) % 256,
                       (T \div 65536) % 256,
                       StateByte(status.state),
                       0 >>

\* a reply for a pending EraseAll: FULL_ERASE_TIME_MS is 2^24 + 5
C7_Witness ==
    /\ Ran("get_status")
    /\ Accepted
    /\ status.pending = CmdEraseAll
    /\ last.data = <<0, 5, 0, 0, 4, 0>>

\* C8: CLRSTATUS received in DfuError is accepted, sets staged and pending to
\* None and moves to DfuIdle with status Ok, whatever the error code was;
\* CLRSTATUS received in any other state is rejected and moves to
\* DfuError/ErrStalledPkt.
C8_ClrStatus ==
    Ran("clear_status")
    =>  IF last.pre.state = "DfuError"
        THEN /\ Accepted
             /\ status.command = CmdNone
             /\ status.pending = CmdNone
             /\ status.state = "DfuIdle"
             /\ status.status = "Ok"
        ELSE Rejected /\ Stalled

C8_Witness ==
    /\ Ran("clear_status")
    /\ last.pre.state = "DfuError"
    /\ last.pre.status = "ErrUsbr"
    /\ last.pre.pending.kind = "Erase"
    /\ Accepted
    /\ status.state = "DfuIdle"

\* two CLRSTATUS in a row, the first received in DfuError
ClrStatusTwice ==
    /\ Ran("clear_status")
    /\ prev.op = "clear_status"
    /\ prev.state = "DfuError"

\* C9 as stated: starting from any DfuError state, issuing CLRSTATUS twice in
\* a row leaves the engine in the same state as issuing it once (DfuIdle with
\* status Ok).
C9_Original ==
    ClrStatusTwice => status = last.pre /\ status.state = "DfuIdle" /\ status.status = "Ok"

\* C9 as amended: starting from any DfuError state, the first CLRSTATUS
\* leaves the engine in DfuIdle with status Ok and a second CLRSTATUS issued
\* right after it is rejected and leaves the engine in DfuError with status
\* ErrStalledPkt (staged and pending None).
C9_ClrStatusTwice ==
    ClrStatusTwice
    =>  /\ prev.xfer = "accept"
        /\ last.pre.state = "DfuIdle"
        /\ last.pre.status = "Ok"
        /\ Rejected
        /\ Stalled
        /\ status.command = CmdNone
        /\ status.pending = CmdNone

C9_Witness ==
    /\ ClrStatusTwice
    /\ Rejected
    /\ Stalled

\* C10: ABORT received in DfuIdle, DfuUploadIdle, DfuDnloadIdle, DfuDnloadSync
\* or DfuManifestSync is accepted, sets staged and pending to None and moves
\* to DfuIdle/Ok; ABORT received in any other state is rejected and leaves
\* state, status code, staged, pending and address_pointer unchanged.
C10_Abort ==
    Ran("abort")
    =>  IF last.pre.state \in {"DfuIdle", "DfuUploadIdle", "DfuDnloadIdle",
                               "DfuDnloadSync", "DfuManifestSync"}
        THEN /\ Accepted
             /\ status.command = CmdNone
             /\ status.pending = CmdNone
             /\ status.state = "DfuIdle"
             /\ status.status = "Ok"
        ELSE /\ Rejected
             /\ status.state = last.pre.state
             /\ status.status = last.pre.status
             /\ status.command = last.pre.command
             /\ status.pending = last.pre.pending
             /\ status.address_pointer = last.pre.address_pointer

C10_Witness ==
    /\ Ran("abort")
    /\ last.pre.state = "DfuDnBusy"
    /\ last.pre.pending.kind = "SetAddressPointer"
    /\ Rejected
    /\ status = last.pre

\* the executor run that has just returned invoked no back-end operation and
\* assigned no address pointer
ExecutorIdle ==
    /\ last.calls = <<>>
    /\ status.address_pointer = last.pre.address_pointer

\* C11: if ABORT is accepted while a command is staged, no later executor run
\* invokes the back-end operation (program, erase, erase_all, manifestation,
\* or the address-pointer assignment) for that command: from the accepted
\* ABORT until the next accepted DNLOAD stages another command, nothing is
\* staged, nothing is pending and every executor run invokes nothing.
C11_AbortCancelsStaged ==
    cancelled = "abort"
    =>  /\ status.command = CmdNone
        /\ status.pending = CmdNone
        /\ Ran("poll") => ExecutorIdle

C11_Witness ==
    /\ cancelled = "abort"
    /\ Ran("poll")
    /\ status.state = "DfuIdle"
    /\ last.calls = <<>>

\* C12: USB reset (when the back-end's usb_reset hook returns): if state is
\* DfuUploadIdle, DfuDnloadIdle, DfuDnloadSync, DfuDnBusy, DfuError,
\* DfuManifest or DfuManifestSync the engine moves to DfuError with status
\* ErrUsbr; if state is DfuIdle or DfuManifestWaitReset (or AppIdle/AppDetach)
\* state and status are unchanged. (AppIdle and AppDetach are never entered:
\* the second conjunct puts the handler in each state.)
C12_UsbReset ==
    /\ Ran("reset")
       =>  IF last.pre.state \in {"DfuUploadIdle", "DfuDnloadIdle", "DfuDnloadSync",
                                  "DfuDnBusy", "DfuError", "DfuManifest",
                                  "DfuManifestSync"}
           THEN status.state = "DfuError" /\ status.status = "ErrUsbr"
           ELSE status.state = last.pre.state /\ status.status = last.pre.status
    /\ \A st \in DfuState :
           LET s == [status EXCEPT !.state = st]
               t == reset(s)
           IN  IF st \in {"DfuIdle", "DfuManifestWaitReset", "AppIdle", "AppDetach"}
               THEN t.state = st /\ t.status = s.status
               ELSE t.state = "DfuError" /\ t.status = "ErrUsbr"

C12_Witness ==
    /\ Ran("reset")
    /\ last.pre.state = "DfuDnBusy"
    /\ status.state = "DfuError"
    /\ status.status = "ErrUsbr"

\* C13 as stated: if a reset (whose usb_reset hook returns) occurs while a
\* command is staged or pending, the back-end operation of that command is
\* never invoked by any later executor run.
C13_Original ==
    (cancelled = "reset" /\ Ran("poll")) => ExecutorIdle

\* section 4.5 of the specification: the status code of a memory error and of
\* a manifestation error
TranslatedMemoryError ==
    [Target |-> "ErrTarget", File |-> "ErrFile", Address |-> "ErrAddress",
     CheckErased |-> "ErrCheckErased", Erase |-> "ErrErase", Write |-> "ErrWrite",
     Prog |-> "ErrProg", Verify |-> "ErrVerify", Unknown |-> "ErrUnknown",
     ErrVendor |-> "ErrVendor"]

TranslatedManifestationError ==
    [NotDone |-> "ErrNotdone", Firmware |-> "ErrFirmware", Unknown |-> "ErrUnknown",
     ErrVendor |-> "ErrVendor", File |-> "ErrFile", Target |-> "ErrTarget"]

\* the engine is where a memory operation that answered r leaves it
MemoryOutcome(r) ==
    IF r = "Ok"
    THEN status.state = "DfuDnloadSync" /\ status.status = "Ok"
    ELSE status.state = "DfuError" /\ status.status = TranslatedMemoryError[r]

\* C14: the deferred executor, for pending EraseAll, Erase(addr), WriteMemory
\* and SetAddressPointer, calls erase_all(), erase(addr), program(...) or
\* assigns the address pointer; on back-end Ok the engine moves to
\* DfuDnloadSync with status Ok, on back-end error e to DfuError with the
\* status code section 4.5 maps e to; pending ReadUnprotect moves to
\* DfuError/ErrStalledPkt; pending None changes nothing; in every case
\* pending is None when the executor returns. (A WriteMemory whose address
\* overflows calls nothing and ends in DfuError/ErrAddress: that is C18. No
\* DNLOAD stages ReadUnprotect while HAS_READ_UNPROTECT is off: the second
\* conjunct hands the executor that pending command.)
C14_Executor ==
    /\ Ran("poll")
       =>  LET p == last.pre.pending
               c == last.calls
           IN  /\ status.pending = CmdNone
               /\ CASE p.kind = "EraseAll" ->
                         /\ Len(c) = 1
                         /\ Len(c[1]) = 2
                         /\ c[1][1] = "erase_all"
                         /\ MemoryOutcome(c[1][2])
                    [] p.kind = "Erase" ->
                         /\ Len(c) = 1
                         /\ Len(c[1]) = 3
                         /\ c[1][1] = "erase"
                         /\ c[1][2] = p.addr
                         /\ MemoryOutcome(c[1][3])
                    [] p.kind = "WriteMemory" ->
                         IF c = <<>>
                         THEN status.state = "DfuError" /\ status.status = "ErrAddress"
                         ELSE /\ Len(c) = 1
                              /\ Len(c[1]) = 4
                              /\ c[1][1] = "program"
                              /\ c[1][3] = p.len
                              /\ MemoryOutcome(c[1][4])
                    [] p.kind = "SetAddressPointer" ->
                         /\ c = <<>>
                         /\ status.address_pointer = p.addr
                         /\ status.state = "DfuDnloadSync"
                         /\ status.status = "Ok"
                    [] p.kind = "ReadUnprotect" ->
                         c = <<>> /\ Stalled
                    [] p.kind = "None" ->
                         c = <<>> /\ status = last.pre
                    [] p.kind = "LeaveDfu" -> TRUE
    /\ LET o == poll([status EXCEPT !.pending = CmdReadUnprotect],
                     MANIFESTATION_TOLERANT, "Ok")
       IN  /\ o.calls = <<>>
           /\ o.status.state = "DfuError"
           /\ o.status.status = "ErrStalledPkt"
           /\ o.status.pending = CmdNone

C14_Witness ==
    /\ Ran("poll")
    /\ last.pre.pending = CmdWriteMemory(1, 3)
    /\ last.pre.address_pointer = <<4660, 65472>>
    /\ last.calls = << <<"program", <<4661, 64>>, 3, "Prog">> >>
    /\ status.state = "DfuError"
    /\ status.status = "ErrProg"
    /\ status.pending = CmdNone

\* C15: the deferred executor, for pending LeaveDfu, calls manifestation(); on
\* error it moves to DfuError with the translated status; on success it moves
\* to DfuManifestSync/Ok when MANIFESTATION_TOLERANT is true (so that the
\* next GETSTATUS, with staged None, moves to DfuIdle) and to
\* DfuManifestWaitReset/Ok when MANIFESTATION_TOLERANT is false.
C15_LeaveDfu ==
    (Ran("poll") /\ last.pre.pending = CmdLeaveDfu)
    =>  /\ Len(last.calls) = 1
        /\ Len(last.calls[1]) = 2
        /\ last.calls[1][1] = "manifestation"
        /\ LET r == last.calls[1][2] IN
           IF r # "Ok"
           THEN /\ status.state = "DfuError"
                /\ status.status = TranslatedManifestationError[r]
           ELSE IF MANIFESTATION_TOLERANT
           THEN /\ status.state = "DfuManifestSync"
                /\ status.status = "Ok"
                /\ status.command = CmdNone
                /\ control_in(status, ClassRequest(DFU_GETSTATUS, 0, 6), NoRead,
                              MANIFESTATION_TOLERANT).status.state = "DfuIdle"
           ELSE /\ status.state = "DfuManifestWaitReset"
                /\ status.status = "Ok"

C15_Witness ==
    /\ Ran("poll")
    /\ last.pre.pending = CmdLeaveDfu
    /\ last.pre.state = "DfuManifest"
    /\ ~MANIFESTATION_TOLERANT
    /\ last.calls = << <<"manifestation", "Ok">> >>
    /\ status.state = "DfuManifestWaitReset"

\* C16: address_pointer starts at INITIAL_ADDRESS_POINTER and is changed only
\* by the deferred executor processing a pending SetAddressPointer(p), which
\* sets it to p; every other step (every DNLOAD, UPLOAD, GETSTATUS, CLRSTATUS,
\* ABORT, GETSTATE, USB reset, and every executor run for another command,
\* whether it succeeds or fails) leaves address_pointer unchanged.
C16_AddressPointer ==
    /\ fresh => status.address_pointer = INITIAL_ADDRESS_POINTER
    /\ last # NoCall
       =>  IF Ran("poll") /\ last.pre.pending.kind = "SetAddressPointer"
           THEN status.address_pointer = last.pre.pending.addr
           ELSE status.address_pointer = last.pre.address_pointer

C16_Witness ==
    /\ Ran("poll")
    /\ last.pre.pending = CmdSetAddressPointer(<<4660, 65472>>)
    /\ last.pre.address_pointer = <<65535, 65535>>
    /\ status.address_pointer = <<4660, 65472>>

\* an UPLOAD of a block (wValue >= 2) that passed the state gate
BlockUpload ==
    /\ Ran("upload")
    /\ last.req.value >= 2
    /\ last.pre.state \in {"DfuIdle", "DfuUploadIdle"}

\* C17: round trip: after SetAddressPointer(a) has been downloaded and
\* executed, an UPLOAD of block 2 (wValue = 2) that follows it calls the
\* back-end read with address a.
C17_RoundTrip ==
    (BlockUpload /\ last.req.value = 2 /\ pointer_set # None)
    =>  /\ Len(last.calls) = 1
        /\ last.calls[1][1] = "read"
        /\ last.calls[1][2] = pointer_set

\* the address downloaded as the bytes C0 FF 34 12
C17_Witness ==
    /\ BlockUpload
    /\ last.req.value = 2
    /\ pointer_set = <<4660, 65472>>
    /\ Len(last.calls) = 1
    /\ last.calls[1][2] = <<4660, 65472>>

\* address_pointer + block_num * TRANSFER_SIZE in 32 bits, for an offset
\* below 2^16: whether it exceeds 2^32 - 1, and the sum when it does not
Exceeds(ap, block_num) ==
    /\ ap[1] = U16 - 1
    /\ block_num * TRANSFER_SIZE > (U16 - 1) - ap[2]

EffectiveAddress(ap, block_num) ==
    LET lo == ap[2] + block_num * TRANSFER_SIZE IN
    IF lo < U16 THEN <<ap[1], lo>> ELSE <<ap[1] + 1, lo - U16>>

\* the call that has just returned handled block block_num from address
\* pointer ap as C18 says, op being the back-end operation
BlockAddressed(ap, block_num, op) ==
    IF Exceeds(ap, block_num)
    THEN /\ last.calls = <<>>
         /\ status.state = "DfuError"
         /\ status.status = "ErrAddress"
    ELSE /\ Len(last.calls) = 1
         /\ last.calls[1][1] = op
         /\ last.calls[1][2] = EffectiveAddress(ap, block_num)

\* C18: for UPLOAD with wValue >= 2 and for a pending WriteMemory{block_num},
\* the effective address is address_pointer + block_num * TRANSFER_SIZE
\* (block_num = wValue - 2) computed without wrap-around in 32 bits; when the
\* sum exceeds 2^32 - 1 the engine moves to DfuError/ErrAddress and the
\* back-end read / program is not called; otherwise read / program is called
\* with exactly that address.
C18_BlockAddress ==
    /\ BlockUpload
       => BlockAddressed(last.pre.address_pointer, last.req.value - 2, "read")
    /\ (Ran("poll") /\ last.pre.pending.kind = "WriteMemory")
       => BlockAddressed(last.pre.address_pointer, last.pre.pending.block_num,
                         "program")

C18_Witness ==
    /\ Ran("poll")
    /\ last.pre.pending = CmdWriteMemory(1, 3)
    /\ last.pre.address_pointer = <<65535, 65535>>
    /\ last.calls = <<>>
    /\ status.state = "DfuError"
    /\ status.status = "ErrAddress"

\* the back-end was asked for min(TRANSFER_SIZE, wLength) bytes and the engine
\* is where the answer of read leaves it
UploadOutcome ==
    LET asked == last.calls[1][3]
        rd == last.calls[1][4]
    IN  /\ asked = IF last.req.length < TRANSFER_SIZE THEN last.req.length
                   ELSE TRANSFER_SIZE
        /\ IF ~rd.ok
           THEN /\ Rejected
                /\ status.state = "DfuError"
                /\ status.status = TranslatedMemoryError[rd.err]
           ELSE IF rd.len < TRANSFER_SIZE
           THEN Accepted /\ status.state = "DfuIdle" /\ status.status = "Ok"
           ELSE Accepted /\ status.state = "DfuUploadIdle" /\ status.status = "Ok"

\* C19 as stated: UPLOAD with wValue >= 2 in DfuIdle or DfuUploadIdle asks the
\* back-end for min(TRANSFER_SIZE, wLength) bytes; fewer than TRANSFER_SIZE
\* bytes returned lead to DfuIdle/Ok, TRANSFER_SIZE bytes or more to
\* DfuUploadIdle/Ok, an error to a rejected transfer and DfuError with the
\* translated status. In particular any successful UPLOAD with
\* wLength < TRANSFER_SIZE ends in DfuIdle.
C19_Original ==
    (BlockUpload /\ last.calls # <<>>)
    =>  /\ UploadOutcome
        /\ (Accepted /\ last.req.length < TRANSFER_SIZE) => status.state = "DfuIdle"

\* C19 as amended: the same, but a successful UPLOAD with
\* wLength < TRANSFER_SIZE ends in DfuIdle only when the back-end returns
\* fewer than TRANSFER_SIZE bytes, as it does when it returns no more bytes
\* than it was asked for; when it returns TRANSFER_SIZE bytes or more that
\* UPLOAD too ends in DfuUploadIdle. (An UPLOAD whose address overflows asks
\* the back-end for nothing: that is C18.)
C19_Upload ==
    (BlockUpload /\ last.calls # <<>>)
    =>  /\ UploadOutcome
        /\ (Accepted /\ last.req.length < TRANSFER_SIZE)
           =>  /\ last.calls[1][4].len <= last.calls[1][3] => status.state = "DfuIdle"
               /\ last.calls[1][4].len >= TRANSFER_SIZE
                      => status.state = "DfuUploadIdle"

\* asked for 3 bytes, the back-end hands back a whole block
C19_Witness ==
    /\ BlockUpload
    /\ last.req.length = 3
    /\ last.calls # <<>>
    /\ last.calls[1][3] = 3
    /\ last.calls[1][4] = [ok |-> TRUE, len |-> TRANSFER_SIZE]
    /\ Accepted
    /\ status.state = "DfuUploadIdle"

\* C20: once a DNLOAD has staged a command, no further DNLOAD (and no UPLOAD)
\* is accepted until that command has either been promoted by GETSTATUS,
\* executed by the deferred executor and acknowledged by a second GETSTATUS,
\* or been discarded by an accepted ABORT or CLRSTATUS; a staged command is
\* therefore never overwritten by a later DNLOAD.
C20_PerBlockOrdering ==
    [][ (last'.op \in {"download", "upload"} /\ last'.xfer = "accept")
        =>  /\ phase = "none"
            /\ status.command = CmdNone
            /\ status.pending = CmdNone ]_vars

\* the next block, accepted after the one before it went all the way
C20_Witness ==
    /\ Ran("download")
    /\ Accepted
    /\ last.pre.state = "DfuDnloadIdle"
    /\ status.command = CmdWriteMemory(1, 3)
    /\ phase = "staged"

\* the back-end operation the executor invokes for a pending command
ExecutorOperation(p) ==
    CASE p.kind = "WriteMemory" -> "program"
      [] p.kind = "Erase" -> "erase"
      [] p.kind = "EraseAll" -> "erase_all"
      [] p.kind = "LeaveDfu" -> "manifestation"
      [] OTHER -> "none"

\* C21: two-phase execution: the back-end's program, erase or erase_all for a
\* command is invoked only after a GETSTATUS reply reporting state DfuDnBusy
\* has been produced for that command, and manifestation only after a
\* GETSTATUS reply reporting DfuManifest; no back-end write / erase /
\* manifestation call happens for a command that was staged but not yet
\* promoted by GETSTATUS. (A command becomes pending only in an accepted
\* GETSTATUS whose reply reports DfuDnBusy, or DfuManifest for LeaveDfu; a
\* pending command is never replaced; only the executor invokes these
\* operations, and only for the command that was pending, promoted before.)
C21_TwoPhase ==
    last # NoCall
    =>  /\ (status.pending # CmdNone /\ last.pre.pending = CmdNone)
           =>  /\ Ran("get_status")
               /\ Accepted
               /\ status.pending = last.pre.command
               /\ last.data[5] = IF status.pending = CmdLeaveDfu THEN 7 ELSE 4
        /\ (status.pending # CmdNone /\ last.pre.pending # CmdNone)
           => status.pending = last.pre.pending
        /\ \A i \in 1..Len(last.calls) :
               last.calls[i][1] \in {"program", "erase", "erase_all", "manifestation"}
               =>  /\ Ran("poll")
                   /\ phase = "executed"
                   /\ last.calls[i][1] = ExecutorOperation(last.pre.pending)
        /\ (Ran("poll") /\ phase = "staged") => last.calls = <<>>

C21_Witness ==
    /\ Ran("poll")
    /\ phase = "executed"
    /\ last.pre.state = "DfuDnBusy"
    /\ last.calls = << <<"erase", <<4660, 65472>>, "Ok">> >>

\* the DNLOAD transfers that open a write cycle and an erase cycle
CycleInputs ==
    { in \in DnloadInputs :
          /\ in[3] = "Ok"
          /\ \/ in[1].value >= 2 /\ in[2] # <<>>
             \/ in[1].value = 0 /\ in[2] # <<>> /\ in[2][1] = CMD_Erase
                    /\ Len(in[2]) \in {1, 5} }

\* the poll timeout of the busy reply of a cycle opened by in
CycleTimeout(in) ==
    IF in[1].value >= 2 THEN PROGRAM_TIME_MS
    ELSE IF Len(in[2]) = 1 THEN FULL_ERASE_TIME_MS
    ELSE ERASE_TIME_MS

\* DNLOAD, GETSTATUS, deferred executor (the back-end answering Ok),
\* GETSTATUS, one after the other from s: the four outcomes
Cycle(s, in) ==
    LET GetStatus6 == ClassRequest(DFU_GETSTATUS, 0, 6)
        o1 == control_out(s, in[1], in[2], in[3])
        o2 == control_in(o1.status, GetStatus6, NoRead, MANIFESTATION_TOLERANT)
        o3 == poll(o2.status, MANIFESTATION_TOLERANT, "Ok")
        o4 == control_in(o3.status, GetStatus6, NoRead, MANIFESTATION_TOLERANT)
    IN  <<o1, o2, o3, o4>>

\* C22: full write cycle: starting in DfuIdle or DfuDnloadIdle with status
\* Ok, the sequence DNLOAD of a block (wValue >= 2, non-empty payload,
\* store_write_buffer Ok), GETSTATUS, deferred executor with program Ok,
\* GETSTATUS yields replies reporting DfuDnBusy with poll timeout
\* PROGRAM_TIME_MS and then DfuDnloadIdle with poll timeout 0, and ends in
\* DfuDnloadIdle with status Ok and staged = pending = None, so the cycle can
\* be repeated; the same holds for an Erase / EraseAll command cycle, with
\* its own poll timeout.
C22_WriteCycle ==
    (last = NoCall /\ status.state \in {"DfuIdle", "DfuDnloadIdle"}
         /\ status.status = "Ok")
    =>  \A in \in CycleInputs :
            LET c == Cycle(status, in)
                T == CycleTimeout(in)
            IN  c[3].calls # <<>>
                =>  /\ c[1].xfer = "accept"
                    /\ c[2].xfer = "accept"
                    /\ c[2].data = <<0, T % 256, (T \div 256) % 256,
                                     (T \div 65536) % 256, 4, 0>>
                    /\ c[3].calls[1][1] \in {"program", "erase", "erase_all"}
                    /\ c[4].xfer = "accept"
                    /\ c[4].data = <<0, 0, 0, 0, 5, 0>>
                    /\ c[4].status.state = "DfuDnloadIdle"
                    /\ c[4].status.status = "Ok"
                    /\ c[4].status.command = CmdNone
                    /\ c[4].status.pending = CmdNone

\* the GETSTATUS that closes a second cycle in a row
C22_Witness ==
    /\ Ran("get_status")
    /\ last.pre.state = "DfuDnloadSync"
    /\ last.pre.command = CmdNone
    /\ last.pre.poll_timeout = PROGRAM_TIME_MS
    /\ last.pre.address_pointer = <<4660, 65472>>
    /\ last.data = <<0, 0, 0, 0, 5, 0>>
    /\ status.state = "DfuDnloadIdle"
    /\ phase = "none"

\* C23: DNLOAD with wLength == 0 received in DfuIdle or DfuDnloadIdle is
\* accepted for every wValue (including the reserved wValue == 1), stages
\* LeaveDfu and moves to DfuManifestSync/Ok.
C23_ZeroLengthDnload ==
    (Ran("download") /\ last.req.length = 0
         /\ last.pre.state \in {"DfuIdle", "DfuDnloadIdle"})
    =>  /\ Accepted
        /\ status.command = CmdLeaveDfu
        /\ status.state = "DfuManifestSync"
        /\ status.status = "Ok"

C23_Witness ==
    /\ Ran("download")
    /\ last.req.length = 0
    /\ last.req.value = 1
    /\ last.pre.state = "DfuDnloadIdle"
    /\ Accepted
    /\ status.command = CmdLeaveDfu
    /\ status.state = "DfuManifestSync"

\* C24: DNLOAD with wValue == 0 and wLength >= 1 (in DfuIdle or
\* DfuDnloadIdle): opcode 0x21 with length 5 stages SetAddressPointer(addr),
\* 0x41 with length 5 stages Erase(addr), 0x41 with length 1 stages EraseAll,
\* addr being the little-endian value of payload bytes 1..4, each moving to
\* DfuDnloadSync/Ok; every other opcode or length (including 0x92) is
\* rejected with DfuError/ErrStalledPkt and stages nothing; ReadUnprotect is
\* never staged or pending.
C24_Commands ==
    /\ status.command.kind # "ReadUnprotect"
    /\ status.pending.kind # "ReadUnprotect"
    /\ (Ran("download") /\ last.req.value = 0 /\ last.req.length >= 1
            /\ last.pre.state \in {"DfuIdle", "DfuDnloadIdle"})
       =>  LET p == last.payload
               staged(kind) ==
                   /\ Accepted
                   /\ status.command.kind = kind
                   /\ status.state = "DfuDnloadSync"
                   /\ status.status = "Ok"
               addressed ==
                   /\ status.command.addr[2] = p[2] + 256 * p[3]
                   /\ status.command.addr[1] = p[4] + 256 * p[5]
           IN  CASE p[1] = 33 /\ last.req.length = 5 ->
                        staged("SetAddressPointer") /\ addressed
                 [] p[1] = 65 /\ last.req.length = 5 ->
                        staged("Erase") /\ addressed
                 [] p[1] = 65 /\ last.req.length = 1 ->
                        staged("EraseAll")
                 [] OTHER ->
                        /\ Rejected
                        /\ Stalled
                        /\ status.command = last.pre.command
                        /\ status.command = CmdNone

C24_Witness ==
    /\ Ran("download")
    /\ last.req.value = 0
    /\ last.payload = <<33, 192, 255, 52, 18>>
    /\ Accepted
    /\ status.command = CmdSetAddressPointer(<<4660, 65472>>)
    /\ status.state = "DfuDnloadSync"

\* C25: DNLOAD with wValue >= 2 and a non-empty payload (in DfuIdle or
\* DfuDnloadIdle) hands the payload to store_write_buffer; on failure the
\* request is rejected with DfuError/ErrStalledPkt and nothing is staged; on
\* success WriteMemory{block_num: wValue - 2, len: payload length} is staged
\* and the state becomes DfuDnloadSync/Ok. DNLOAD with wValue == 1 and
\* wLength >= 1 is rejected with DfuError/ErrStalledPkt.
C25_Blocks ==
    (Ran("download") /\ last.req.length >= 1
         /\ last.pre.state \in {"DfuIdle", "DfuDnloadIdle"})
    =>  /\ last.req.value >= 2
           =>  /\ Len(last.calls) = 1
               /\ last.calls[1][1] = "store_write_buffer"
               /\ last.calls[1][2] = Len(last.payload)
               /\ last.calls[1][3] = "Err"
                  =>  /\ Rejected
                      /\ Stalled
                      /\ status.command = CmdNone
               /\ last.calls[1][3] = "Ok"
                  =>  /\ Accepted
                      /\ status.command =
                             CmdWriteMemory(last.req.value - 2, Len(last.payload))
                      /\ status.state = "DfuDnloadSync"
                      /\ status.status = "Ok"
        /\ last.req.value = 1
           =>  /\ Rejected
               /\ Stalled
               /\ last.calls = <<>>
               /\ status.command = CmdNone

\* a block refused by store_write_buffer
C25_Witness ==
    /\ Ran("download")
    /\ last.req.value = 3
    /\ last.pre.state = "DfuDnloadIdle"
    /\ last.calls = << <<"store_write_buffer", 2, "Err">> >>
    /\ Rejected
    /\ Stalled

\* C26: GETSTATE with wLength >= 1 returns one byte holding the current
\* state code and changes nothing; with wLength == 0 it is rejected and the
\* device goes to DfuError/ErrStalledPkt.
C26_GetState ==
    Ran("get_state")
    =>  /\ last.req.length >= 1
           =>  /\ Accepted
               /\ last.data = <<StateByte(last.pre.state)>>
               /\ status = last.pre
               /\ last.calls = <<>>
        /\ last.req.length = 0
           =>  /\ Rejected
               /\ Stalled

\* the state read in DfuError, whose status code is left as it was
C26_Witness ==
    /\ Ran("get_state")
    /\ last.req.length = 2
    /\ last.pre.status = "ErrVerify"
    /\ Accepted
    /\ last.data = <<10>>
    /\ status = last.pre

\* C27: GETSTATUS with wLength < 6 is rejected in every state, moves the
\* engine to DfuError/ErrStalledPkt, and performs no promotion: a staged
\* command is not moved to pending and is never executed as a result of that
\* request. (The staged command stays staged in DfuError; from there no call
\* makes it pending, and it is either kept in DfuError or dropped.)
C27_ShortGetStatus ==
    /\ (Ran("get_status") /\ last.req.length < 6)
       =>  /\ Rejected
           /\ Stalled
           /\ last.calls = <<>>
           /\ status.command = last.pre.command
           /\ status.pending = last.pre.pending
    /\ (last # NoCall /\ last.pre.state = "DfuError" /\ last.pre.command # CmdNone)
       =>  /\ status.pending = CmdNone
           /\ last.calls = <<>>
           /\ \/ status.command = CmdNone
              \/ status.command = last.pre.command /\ status.state = "DfuError"

\* a short GETSTATUS meeting a staged block
C27_Witness ==
    /\ Ran("get_status")
    /\ last.req.length = 5
    /\ last.pre.state = "DfuDnloadSync"
    /\ last.pre.command = CmdWriteMemory(1, 3)
    /\ Rejected
    /\ Stalled
    /\ status.command = CmdWriteMemory(1, 3)
    /\ status.pending = CmdNone

\* requests of every code, handled or not
AnyRequest ==
    { ClassRequest(c, v, l) :
          c \in DFU_DETACH..DFU_ABORT + 1, v \in {0, 2}, l \in {0, 6} }

\* C28: dispatcher frame: a control transfer whose request type is not
\* Class, whose recipient is not Interface or whose index is not the owned
\* interface number, and a class request with an unhandled code or a handled
\* code in the wrong direction (DETACH, or DNLOAD as a device-to-host
\* transfer), leaves state, status code, staged, pending and address_pointer
\* unchanged and invokes no back-end operation.
C28_DispatcherFrame ==
    /\ (Ran("control_out") \/ Ran("control_in"))
       =>  /\ status = last.pre
           /\ last.calls = <<>>
    /\ last = NoCall
       =>  \A q \in AnyRequest :
               /\ \A r \in Misrouted(q)
                            \cup (IF q.request \in {DFU_DNLOAD, DFU_CLRSTATUS, DFU_ABORT}
                                  THEN {} ELSE {q}) :
                      LET o == control_out(status, r, Zeros(q.length), "Ok")
                      IN  o.status = status /\ o.calls = <<>>
               /\ \A r \in Misrouted(q)
                            \cup (IF q.request \in {DFU_UPLOAD, DFU_GETSTATUS, DFU_GETSTATE}
                                  THEN {} ELSE {q}) :
                      LET o == control_in(status, r, NoRead, MANIFESTATION_TOLERANT)
                      IN  o.status = status /\ o.calls = <<>>

\* a DNLOAD for another interface met while a command is staged
C28_Witness ==
    /\ Ran("control_out")
    /\ last.req.request = DFU_DNLOAD
    /\ last.req.index # IF_NUM
    /\ last.pre.state = "DfuDnloadSync"
    /\ last.pre.command # CmdNone
    /\ status = last.pre
    /\ last.xfer = "none"

\* C29: for every combination of MANIFESTATION_TOLERANT, HAS_UPLOAD and
\* HAS_DOWNLOAD, the functional descriptor's bmAttributes byte equals
\* 0x08 + 0x04*MANIFESTATION_TOLERANT + 0x02*HAS_UPLOAD + 0x01*HAS_DOWNLOAD
\* (bit 7 and bits 4..6 clear, bit 3 always set), followed by DETACH_TIMEOUT
\* and TRANSFER_SIZE as little-endian 16-bit values and the bytes 0x1A, 0x01.
\* (last.req.value holds 2*HAS_UPLOAD + HAS_DOWNLOAD of the call.)
C29_FunctionalDescriptor ==
    Ran("get_configuration_descriptors")
    =>  LET d == last.data
            tolerant == IF MANIFESTATION_TOLERANT THEN 1 ELSE 0
        IN  /\ Len(d) = 7
            /\ last.req.value \in 0..3
            /\ d[1] = 8 + 4 * tolerant + last.req.value
            /\ d[1] \in 8..15
            /\ d[2] + 256 * d[3] = DETACH_TIMEOUT
            /\ d[4] + 256 * d[5] = TRANSFER_SIZE
            /\ \A i \in 2..5 : d[i] \in 0..255
            /\ d[6] = 26
            /\ d[7] = 1
            /\ status = last.pre

\* a tolerant back-end with upload and without download
C29_Witness ==
    /\ Ran("get_configuration_descriptors")
    /\ MANIFESTATION_TOLERANT
    /\ last.req.value = 2
    /\ last.data = <<14, 250, 0, 128, 0, 26, 1>>

\* C30: in every reachable state pending != None if and only if state is
\* DfuDnBusy or DfuManifest (in particular pending is None in DfuError, and
\* DfuDnBusy / DfuManifest are never held with pending None), after any
\* sequence of requests, resets and deferred-executor runs.
C30_Original ==
    (status.pending # CmdNone) <=> (status.state \in {"DfuDnBusy", "DfuManifest"})

\* C31: in every reachable state at most one of staged and pending is
\* different from None.
C31_AtMostOne ==
    ~(status.command # CmdNone /\ status.pending # CmdNone)

\* the promotion, where the command changes slot
C31_Witness ==
    /\ Ran("get_status")
    /\ Accepted
    /\ last.pre.command = CmdErase(<<4660, 65472>>)
    /\ last.pre.pending = CmdNone
    /\ status.command = CmdNone
    /\ status.pending = CmdErase(<<4660, 65472>>)

\* C32: whenever a GETSTATUS is accepted and its reply returned, staged is
\* None at that moment - in every state in which GETSTATUS is accepted,
\* including DfuError reached by an error-stall or reset that happened while
\* a command was staged.
C32_Original ==
    (Ran("get_status") /\ Accepted) => status.command = CmdNone

\* C32, as the code has it: whenever a GETSTATUS is accepted outside DfuError,
\* staged is None when its reply returns; in DfuError a GETSTATUS is
\* accepted too and leaves the staged command (and everything else but the
\* poll timeout) as it was.
C32_StagedCleared ==
    (Ran("get_status") /\ Accepted)
    =>  /\ last.pre.state # "DfuError" => status.command = CmdNone
        /\ last.pre.state = "DfuError"
           =>  /\ status.command = last.pre.command
               /\ status.pending = last.pre.pending
               /\ status.state = "DfuError"
               /\ status.status = last.pre.status
               /\ last.data[5] = 10

\* a GETSTATUS accepted in DfuError over a staged block
C32_Witness ==
    /\ Ran("get_status")
    /\ Accepted
    /\ last.pre.state = "DfuError"
    /\ last.pre.status = "ErrUsbr"
    /\ status.command = CmdWriteMemory(1, 3)
    /\ last.data = <<12, 0, 0, 0, 10, 0>>

\* C33: whenever state is DfuIdle, DfuDnloadIdle or DfuUploadIdle, both
\* staged and pending are None; no stale command from an earlier aborted,
\* failed or reset-interrupted operation survives into a state in which
\* DNLOAD or UPLOAD is legal.
C33_IdleIsClean ==
    status.state \in {"DfuIdle", "DfuDnloadIdle", "DfuUploadIdle"}
    =>  /\ status.command = CmdNone
        /\ status.pending = CmdNone

\* a CLRSTATUS after a reset that interrupted a pending command
C33_Witness ==
    /\ Ran("clear_status")
    /\ Accepted
    /\ cancelled = "reset"
    /\ last.pre.status = "ErrUsbr"
    /\ last.pre.pending # CmdNone
    /\ status.state = "DfuIdle"
    /\ status.command = CmdNone
    /\ status.pending = CmdNone

\* C34: once the engine is in DfuError, the only step that takes it out of
\* DfuError is an accepted CLRSTATUS: no DNLOAD, UPLOAD, GETSTATUS, GETSTATE,
\* ABORT, USB reset or deferred-executor run moves it from DfuError to
\* another state.
C34_Original ==
    (last # NoCall /\ last.pre.state = "DfuError" /\ status.state # "DfuError")
    =>  (Ran("clear_status") /\ Accepted)

\* C35: the status code recorded in DfuError is not sticky: while already in
\* DfuError, a request that is error-stalled (DNLOAD, UPLOAD, GETSTATE with
\* wLength 0, GETSTATUS with wLength < 6) overwrites the status code with
\* ErrStalledPkt and a USB reset overwrites it with ErrUsbr; of the requests
\* the engine handles only GETSTATUS (wLength >= 6), GETSTATE (wLength >= 1)
\* and a rejected ABORT leave the code unchanged (CLRSTATUS replaces it by
\* Ok).
C35_CodeNotSticky ==
    (last # NoCall /\ last.pre.state = "DfuError")
    =>  /\ (\/ Ran("download")
            \/ Ran("upload")
            \/ Ran("get_state") /\ last.req.length = 0
            \/ Ran("get_status") /\ last.req.length < 6)
           =>  /\ Rejected
               /\ Stalled
        /\ Ran("reset")
           =>  /\ status.state = "DfuError"
               /\ status.status = "ErrUsbr"
        /\ (\/ Ran("get_state") /\ last.req.length >= 1
            \/ Ran("get_status") /\ last.req.length >= 6)
           =>  /\ Accepted
               /\ status.state = "DfuError"
               /\ status.status = last.pre.status
        /\ Ran("abort")
           =>  /\ Rejected
               /\ status = last.pre
        /\ Ran("clear_status")
           =>  /\ Accepted
               /\ status.status = "Ok"

\* a reset replacing the error of a failed erase before the host read it
C35_Witness ==
    /\ Ran("reset")
    /\ last.pre.state = "DfuError"
    /\ last.pre.status = "ErrErase"
    /\ status.state = "DfuError"
    /\ status.status = "ErrUsbr"

\* C36: every back-end call to program, erase, erase_all or manifestation
\* corresponds to exactly one earlier accepted DNLOAD whose command was
\* promoted by a GETSTATUS, and each accepted DNLOAD causes at most one such
\* back-end call: a command is never executed twice, even if the deferred
\* executor runs repeatedly or the host repeats GETSTATUS. (Such a call is
\* made only by an executor run that meets a promoted command not executed
\* yet, which it marks executed and removes from pending; a command is
\* promoted only from a staged one, by an accepted GETSTATUS, and staged
\* only by an accepted DNLOAD.)
C36_ExecutedOnce ==
    [][ (last = NoCall /\ last' # NoCall)
        =>  /\ (\E i \in 1..Len(last'.calls) :
                    last'.calls[i][1] \in
                        {"program", "erase", "erase_all", "manifestation"})
               =>  /\ last'.op = "poll"
                   /\ Len(last'.calls) = 1
                   /\ last'.calls[1][1] = ExecutorOperation(status.pending)
                   /\ phase = "promoted"
                   /\ phase' = "executed"
                   /\ status'.pending = CmdNone
            /\ (phase' = "promoted" /\ phase # "promoted")
               =>  /\ phase = "staged"
                   /\ last'.op = "get_status"
                   /\ last'.xfer = "accept"
                   /\ status.command # CmdNone
                   /\ status'.pending = status.command
            /\ (phase' = "staged" /\ phase # "staged")
               =>  /\ last'.op = "download"
                   /\ last'.xfer = "accept"
                   /\ phase = "none" ]_vars

\* an executor run that finds nothing left of the block it has programmed
C36_Witness ==
    /\ Ran("poll")
    /\ phase = "executed"
    /\ last.pre.state = "DfuDnloadSync"
    /\ last.pre.pending = CmdNone
    /\ last.pre.address_pointer = <<4660, 65472>>
    /\ last.calls = <<>>
    /\ status = last.pre

\* C37: progress: assuming the deferred executor is eventually run (fair
\* poll) and back-end calls return, whenever the engine is in DfuDnBusy or
\* DfuManifest it eventually leaves that state with pending = None, landing
\* in DfuDnloadSync, DfuManifestSync, DfuManifestWaitReset or DfuError; the
\* engine never remains busy forever.
C37_Original ==
    (status.state \in {"DfuDnBusy", "DfuManifest"})
    ~>  (/\ status.pending = CmdNone
         /\ status.state \in {"DfuDnloadSync", "DfuManifestSync",
                               "DfuManifestWaitReset", "DfuError"})

====
